---- MODULE Spec2Model ----
(***************************************************************************)
(* Model of groups_gemmi.py: the systematic-absence test                   *)
(* (is_reflection_absent), the per-zone condition inference (analyze_zone) *)
(* and the database-building loop of main.                                 *)
(***************************************************************************)
EXTENDS Integers, Sequences, FiniteSets, TLC

VARIABLES
    pc,            \* position of the modelled call / of main's loop
    gemmi_ops,     \* argument gemmi_ops: sequence of operations
    ref,           \* argument (h, k, l) of is_reflection_absent
    absent,        \* value returned by is_reflection_absent
    zone_type,     \* argument zone_type of analyze_zone
    max_index,     \* argument max_index of analyze_zone
    test_refs,     \* local test_refs of the last analyze_zone call
    present_refs,  \* local present_refs of the last analyze_zone call
    returned,      \* value returned by the last analyze_zone call
    first_call,    \* max_index and result of the call before the last one
    settings_list, \* main: the list loaded from settings_list.json
    position,      \* main: index of the next setting of the for loop
    database,      \* main: the dictionary database
    skipped_log,   \* main: the lines of skipped_symbols.log
    output,        \* main: what was dumped to the output file
    raised,        \* environment: where gemmi raised, per handled setting
    origin         \* history: the setting each line, entry and record is from

callVars == <<gemmi_ops, ref, absent, zone_type, max_index, test_refs,
              present_refs, returned, first_call>>

mainVars == <<settings_list, position, database, skipped_log, output, raised, origin>>

vars == <<pc, callVars, mainVars>>

(***************************************************************************)
(* Bounds of the model.                                                    *)
(***************************************************************************)
MaxOps == 2          \* longest operation list drawn as an input
MaxRef == 2          \* small Miller indices range over -MaxRef..MaxRef
LargeIndex == 100003 \* one large Miller index, where rtol dominates atol
MaxIndex == 4        \* largest explicit max_index argument
MaxSettings == 3     \* longest settings list drawn as an input

(***************************************************************************)
(* gemmi.Op.DEN and the operations.  An operation is a record with an      *)
(* integer 3x3 matrix rot and an integer vector tran, both over DEN.       *)
(***************************************************************************)
DEN == 24

\* Python's None, as a value that differs from every list of condition strings
None == <<"None">>

Abs(x) == IF x < 0 THEN -x ELSE x

Op(r, t) == [rot |-> r, tran |-> t]

RotIdentity == <<<<DEN, 0, 0>>, <<0, DEN, 0>>, <<0, 0, DEN>>>>
RotTwoFoldB == <<<<-DEN, 0, 0>>, <<0, DEN, 0>>, <<0, 0, -DEN>>>>
RotMirrorB  == <<<<DEN, 0, 0>>, <<0, -DEN, 0>>, <<0, 0, DEN>>>>
RotFourFoldC == <<<<0, -DEN, 0>>, <<DEN, 0, 0>>, <<0, 0, DEN>>>>

Identity == Op(RotIdentity, <<0, 0, 0>>)

(***************************************************************************)
(* np.isclose(a, b) with numpy's defaults rtol = 1e-5, atol = 1e-8:        *)
(*     |a - b| <= atol + rtol * |b|.                                       *)
(* Here a = num / DEN and b is an integer, so with everything multiplied   *)
(* by DEN * 10^8 the test is                                               *)
(*     |num - DEN*b| * 10^8 <= DEN * (1 + 1000 * |b|),                     *)
(* and, the left factor being an integer,                                  *)
(*     |num - DEN*b| <= (DEN * (1 + 1000*|b|)) \div 10^8                   *)
(*                    = (DEN*|b| + DEN \div 1000) \div 10^5.               *)
(* The last form is used because it stays within 32-bit integers.  The    *)
(* rounding error of the float arithmetic (below 1e-10 for the indices    *)
(* used here) is far below the tolerance and is not modelled.              *)
(***************************************************************************)
isclose(num, b) ==
    Abs(num - DEN * b) <= (DEN * Abs(b) + DEN \div 1000) \div 100000

\* np.round of num / DEN: round half to even
round(num) ==
    LET q == num \div DEN
        r == num % DEN
    IN  IF 2 * r < DEN THEN q
        ELSE IF 2 * r > DEN THEN q + 1
        ELSE IF q % 2 = 0 THEN q ELSE q + 1

\* numerators over DEN of h_vec @ rot_frac
VecRot(h_vec, op) ==
    [j \in 1..3 |-> h_vec[1] * op.rot[1][j] + h_vec[2] * op.rot[2][j]
                    + h_vec[3] * op.rot[3][j]]

\* numerator over DEN of np.dot(h_vec, trans_frac)
VecTran(h_vec, op) ==
    h_vec[1] * op.tran[1] + h_vec[2] * op.tran[2] + h_vec[3] * op.tran[3]

\* np.allclose(h_vec @ rot_frac, h_vec)
allclose(h_vec, op) ==
    \A j \in 1..3 : isclose(VecRot(h_vec, op)[j], h_vec[j])

\* the body of the for loop: does this operation make the reflection absent
OpTriggers(h_vec, op) ==
    /\ allclose(h_vec, op)
    /\ ~ isclose(VecTran(h_vec, op), round(VecTran(h_vec, op)))

RECURSIVE AbsentFrom(_, _, _)
AbsentFrom(ops, i, h_vec) ==
    IF i > Len(ops) THEN FALSE
    ELSE IF OpTriggers(h_vec, ops[i]) THEN TRUE
    ELSE AbsentFrom(ops, i + 1, h_vec)

is_reflection_absent(ops, h, k, l) == AbsentFrom(ops, 1, <<h, k, l>>)

(***************************************************************************)
(* analyze_zone: the zone sampler.                                         *)
(***************************************************************************)
\* range(-max_index // 2, max_index): Python parses -max_index // 2 as
\* (-max_index) // 2, the floor of -max_index / 2
\* variant: the lower end read as -(max_index // 2)
index_range_neg_floor(m) == (-(m \div 2)) .. (m - 1)

index_range(m) == ((-m) \div 2) .. (m - 1)

Zones == {"hkl", "0kl", "h0l", "hk0", "hhl", "hkk", "hll", "h00", "0k0", "00l"}

sample(zone, m) ==
    LET h_range == index_range(m)
        k_range == index_range(m)
        l_range == index_range(m)
    IN  CASE zone = "hkl" ->
               {<<h, k, l>> : h \in h_range, k \in k_range, l \in l_range}
                   \ {<<0, 0, 0>>}
          [] zone = "h00" -> {<<h, 0, 0>> : h \in h_range \ {0}}
          [] zone = "0k0" -> {<<0, k, 0>> : k \in k_range \ {0}}
          [] zone = "00l" -> {<<0, 0, l>> : l \in l_range \ {0}}
          [] zone = "hk0" ->
               {<<h, k, 0>> : h \in h_range, k \in k_range} \ {<<0, 0, 0>>}
          [] zone = "h0l" ->
               {<<h, 0, l>> : h \in h_range, l \in l_range} \ {<<0, 0, 0>>}
          [] zone = "0kl" ->
               {<<0, k, l>> : k \in k_range, l \in l_range} \ {<<0, 0, 0>>}
          [] zone = "hhl" ->
               {<<h, h, l>> : h \in h_range, l \in l_range} \ {<<0, 0, 0>>}
          [] zone = "hkk" ->
               {<<h, k, k>> : h \in h_range, k \in k_range} \ {<<0, 0, 0>>}
          [] zone = "hll" ->
               {<<h, l, l>> : h \in h_range, l \in l_range} \ {<<0, 0, 0>>}
          [] OTHER -> {}

\* present_refs: the candidates that are not systematically absent
present(ops, refs) ==
    {r \in refs : ~ is_reflection_absent(ops, r[1], r[2], r[3])}

(***************************************************************************)
(* analyze_zone: the rules deduced from the present reflections.           *)
(***************************************************************************)
conditions_hkl(p) ==
    IF \A r \in p : /\ (r[1] + r[2]) % 2 = 0
                    /\ (r[2] + r[3]) % 2 = 0
                    /\ (r[1] + r[3]) % 2 = 0
    THEN {"h+k, k+l, h+l=2n"}
    ELSE IF \A r \in p : (r[1] + r[2] + r[3]) % 2 = 0 THEN {"h+k+l=2n"}
    ELSE IF \A r \in p : (r[2] + r[3]) % 2 = 0 THEN {"k+l=2n"}
    ELSE IF \A r \in p : (r[1] + r[3]) % 2 = 0 THEN {"h+l=2n"}
    ELSE IF \A r \in p : (r[1] + r[2]) % 2 = 0 THEN {"h+k=2n"}
    ELSE IF \A r \in p : (-r[1] + r[2] + r[3]) % 3 = 0 THEN {"-h+k+l=3n"}
    ELSE IF \A r \in p : (r[1] - r[2] + r[3]) % 3 = 0 THEN {"h-k+l=3n"}
    ELSE {}

\* variant: the two moduli tested against the wrong strings
conditions_h00_swapped(p) ==
    IF \A r \in p : r[1] % 2 = 0 THEN {"h=4n"}
    ELSE IF \A r \in p : r[1] % 4 = 0 THEN {"h=2n"}
    ELSE {}

conditions_h00(p) ==
    IF \A r \in p : r[1] % 4 = 0 THEN {"h=4n"}
    ELSE IF \A r \in p : r[1] % 2 = 0 THEN {"h=2n"}
    ELSE {}

\* variant: any(...) in place of all(...)
conditions_0k0_any(p) ==
    IF \E r \in p : r[2] % 4 = 0 THEN {"k=4n"}
    ELSE IF \E r \in p : r[2] % 2 = 0 THEN {"k=2n"}
    ELSE {}

conditions_0k0(p) ==
    IF \A r \in p : r[2] % 4 = 0 THEN {"k=4n"}
    ELSE IF \A r \in p : r[2] % 2 = 0 THEN {"k=2n"}
    ELSE {}

conditions_00l(p) ==
    IF \A r \in p : r[3] % 6 = 0 THEN {"l=6n"}
    ELSE IF \A r \in p : r[3] % 4 = 0 THEN {"l=4n"}
    ELSE IF \A r \in p : r[3] % 3 = 0 THEN {"l=3n"}
    ELSE IF \A r \in p : r[3] % 2 = 0 THEN {"l=2n"}
    ELSE {}

\* The three plane zones share one shape: i, j are the positions of the two
\* free indices and si, sj, s4, s2 the four condition strings of the zone.
\* variant: without the two discard statements
plane_conditions_no_cleanup(p, i, j, si, sj, s4, s2) ==
    LET i2n == \A r \in p : r[i] % 2 = 0
        j2n == \A r \in p : r[j] % 2 = 0
        single == (IF i2n THEN {si} ELSE {}) \cup (IF j2n THEN {sj} ELSE {})
        sum == IF \A r \in p : (r[i] + r[j]) % 4 = 0 THEN {s4}
               ELSE IF \A r \in p : (r[i] + r[j]) % 2 = 0 THEN {s2}
               ELSE {}
    IN  single \cup sum

plane_conditions(p, i, j, si, sj, s4, s2) ==
    LET i2n == \A r \in p : r[i] % 2 = 0
        j2n == \A r \in p : r[j] % 2 = 0
        single == (IF i2n THEN {si} ELSE {}) \cup (IF j2n THEN {sj} ELSE {})
        sum == IF \A r \in p : (r[i] + r[j]) % 4 = 0 THEN {s4}
               ELSE IF \A r \in p : (r[i] + r[j]) % 2 = 0 THEN {s2}
               ELSE {}
        added == single \cup sum
        cleanup1 == IF i2n /\ j2n THEN added \ {s2} ELSE added
    IN  IF s4 \in cleanup1 THEN cleanup1 \ {s2} ELSE cleanup1

conditions_hk0(p) ==
    plane_conditions(p, 1, 2, "h=2n", "k=2n", "h+k=4n", "h+k=2n")

conditions_h0l(p) ==
    plane_conditions(p, 1, 3, "h=2n", "l=2n", "h+l=4n", "h+l=2n")

conditions_0kl(p) ==
    plane_conditions(p, 2, 3, "k=2n", "l=2n", "k+l=4n", "k+l=2n")

conditions_hhl(p) ==
    LET added ==
            (IF \A r \in p : (2 * r[1] + r[3]) % 4 = 0
                 THEN {"2h+l=4n"} ELSE {})
            \cup (IF \A r \in p : (r[1] + r[3]) % 2 = 0
                 THEN {"h+l=2n"} ELSE {})
            \cup (IF \A r \in p : r[3] % 2 = 0 THEN {"l=2n"} ELSE {})
    IN  IF "2h+l=4n" \in added THEN added \ {"l=2n"} ELSE added

conditions_hkk(p) ==
    LET added ==
            (IF \A r \in p : (r[1] + 2 * r[2]) % 4 = 0
                 THEN {"h+2k=4n"} ELSE {})
            \cup (IF \A r \in p : (r[1] + r[2]) % 2 = 0
                 THEN {"h+k=2n"} ELSE {})
            \cup (IF \A r \in p : r[1] % 2 = 0 THEN {"h=2n"} ELSE {})
    IN  IF "h+2k=4n" \in added THEN added \ {"h=2n"} ELSE added

conditions_hll(p) ==
    LET added ==
            (IF \A r \in p : (r[1] + 2 * r[3]) % 4 = 0
                 THEN {"h+2l=4n"} ELSE {})
            \cup (IF \A r \in p : (r[1] + r[3]) % 2 = 0
                 THEN {"h+l=2n"} ELSE {})
            \cup (IF \A r \in p : r[1] % 2 = 0 THEN {"h=2n"} ELSE {})
    IN  IF "h+2l=4n" \in added THEN added \ {"h=2n"} ELSE added

deduce(zone, p) ==
    CASE zone = "hkl" -> conditions_hkl(p)
      [] zone = "h00" -> conditions_h00(p)
      [] zone = "0k0" -> conditions_0k0(p)
      [] zone = "00l" -> conditions_00l(p)
      [] zone = "hk0" -> conditions_hk0(p)
      [] zone = "h0l" -> conditions_h0l(p)
      [] zone = "0kl" -> conditions_0kl(p)
      [] zone = "hhl" -> conditions_hhl(p)
      [] zone = "hkk" -> conditions_hkk(p)
      [] zone = "hll" -> conditions_hll(p)
      [] OTHER -> {}

\* sorted(list(conditions)): the condition strings in Python's string order
\* (code points: ' ' < '+' < ',' < '-' < digits < '=' < letters)
SortedConditions ==
    << "-h+k+l=3n", "2h+l=4n", "h+2k=4n", "h+2l=4n", "h+k+l=2n",
       "h+k, k+l, h+l=2n", "h+k=2n", "h+k=4n", "h+l=2n", "h+l=4n",
       "h-k+l=3n", "h=2n", "h=4n", "k+l=2n", "k+l=4n", "k=2n", "k=4n",
       "l=2n", "l=3n", "l=4n", "l=6n" >>

sorted(conditions) == SelectSeq(SortedConditions, LAMBDA c : c \in conditions)

\* variant: an empty list in place of None when nothing is to be reported
analyze_zone_empty_list(ops, zone, m) ==
    LET refs == sample(zone, m)
        pres == present(ops, refs)
    IN  IF refs = {} THEN None
        ELSE IF Cardinality(pres) = Cardinality(refs) \/ pres = {} THEN <<>>
        ELSE IF deduce(zone, pres) # {} THEN sorted(deduce(zone, pres))
        ELSE None

analyze_zone(ops, zone, m) ==
    LET refs == sample(zone, m)
        pres == present(ops, refs)
    IN  IF refs = {} THEN None
        ELSE IF Cardinality(pres) = Cardinality(refs) \/ pres = {} THEN None
        ELSE IF deduce(zone, pres) # {} THEN sorted(deduce(zone, pres))
        ELSE None

(***************************************************************************)
(* Inputs: operations as gemmi returns them (integers over DEN = 24).      *)
(***************************************************************************)
RotTwoFoldC == <<<<-DEN, 0, 0>>, <<0, -DEN, 0>>, <<0, 0, DEN>>>>

TranA == Op(RotIdentity, <<DEN \div 2, 0, 0>>)          \* x+1/2, y, z
TranB == Op(RotIdentity, <<0, DEN \div 2, 0>>)          \* x, y+1/2, z
Screw21C == Op(RotTwoFoldC, <<0, 0, DEN \div 2>>)       \* -x, -y, z+1/2
Screw41C == Op(RotFourFoldC, <<0, 0, DEN \div 4>>)      \* -y, x, z+1/4
Screw21B == Op(RotTwoFoldB, <<0, DEN \div 2, DEN \div 2>>) \* -x, y+1/2, -z+1/2
GlideC == Op(RotMirrorB, <<0, DEN \div 2, DEN \div 2>>) \* x, -y+1/2, z+1/2

ZonePool == {Identity, TranA, TranB, Screw21C, Screw41C, Screw21B, GlideC}
AbsentPool == {Identity, TranA, Screw41C, Screw21B, GlideC}

OpLists(pool) == UNION {[1..n -> pool] : n \in 0..MaxOps}

RefIndices == (-MaxRef .. MaxRef) \cup {LargeIndex}

DefaultMaxIndex == 8

Unset == "unset"

\* the variables of main while only the two functions are exercised
MainIdle ==
    /\ settings_list = <<>> /\ position = 0
    /\ database = <<>> /\ skipped_log = <<>>
    /\ output = Unset /\ raised = <<>> /\ origin = Unset

(***************************************************************************)
(* Calls of is_reflection_absent.                                          *)
(***************************************************************************)
InitAbsent ==
    /\ pc = "call"
    /\ gemmi_ops \in OpLists(AbsentPool)
    /\ ref \in RefIndices \X RefIndices \X RefIndices
    /\ absent = Unset
    /\ zone_type = Unset /\ max_index = Unset
    /\ test_refs = {} /\ present_refs = {}
    /\ returned = Unset /\ first_call = Unset
    /\ MainIdle

CallAbsent ==
    /\ pc = "call"
    /\ absent' = is_reflection_absent(gemmi_ops, ref[1], ref[2], ref[3])
    /\ pc' = "done"
    /\ UNCHANGED <<gemmi_ops, ref, zone_type, max_index, test_refs,
                   present_refs, returned, first_call, mainVars>>

NextAbsent == CallAbsent

SpecAbsent == InitAbsent /\ [][NextAbsent]_vars

(***************************************************************************)
(* Calls of analyze_zone, with an explicit max_index or with the default.  *)
(***************************************************************************)
InitZone ==
    /\ pc = "call"
    /\ gemmi_ops \in OpLists(ZonePool)
    /\ zone_type \in Zones
    /\ max_index = Unset
    /\ ref = Unset /\ absent = Unset
    /\ test_refs = {} /\ present_refs = {}
    /\ returned = Unset /\ first_call = Unset
    /\ MainIdle

Call(m) ==
    /\ max_index' = m
    /\ test_refs' = sample(zone_type, m)
    /\ present_refs' = present(gemmi_ops, sample(zone_type, m))
    /\ returned' = analyze_zone(gemmi_ops, zone_type, m)

AnalyzeZone ==
    /\ pc = "call"
    /\ \E m \in 0..MaxIndex : Call(m)
    /\ pc' = "done"
    /\ UNCHANGED <<gemmi_ops, ref, absent, zone_type, first_call, mainVars>>

AnalyzeZoneDefault ==
    /\ pc = "call"
    /\ Call(DefaultMaxIndex)
    /\ pc' = "done"
    /\ UNCHANGED <<gemmi_ops, ref, absent, zone_type, first_call, mainVars>>

NextZone == AnalyzeZone \/ AnalyzeZoneDefault

SpecZone == InitZone /\ [][NextZone]_vars

(***************************************************************************)
(* Properties of is_reflection_absent.                                     *)
(***************************************************************************)
\* the exact (integer) form of the two conditions for one operation
ExactTrigger(h_vec, op) ==
    /\ \A j \in 1..3 : VecRot(h_vec, op)[j] = DEN * h_vec[j]
    /\ VecTran(h_vec, op) % DEN # 0

\* C1: is_reflection_absent returns true exactly when some operation of the
\* list has (h,k,l).R = D.(h,k,l) and ((h,k,l).t) mod D # 0, whatever the
\* order of the list.
C1_AbsentIffSomeOperationTriggers ==
    pc = "done" =>
        (absent = (\E i \in 1..Len(gemmi_ops) : ExactTrigger(ref, gemmi_ops[i])))

(***************************************************************************)
(* Properties of analyze_zone.                                             *)
(***************************************************************************)
AxialZones == {"h00", "0k0", "00l"}
PlaneZones == {"hk0", "h0l", "0kl"}

\* positions of the components that vary freely in a zone
FreeComponents(zone) ==
    CASE zone = "hkl" -> {1, 2, 3}
      [] zone = "h00" -> {1}
      [] zone = "0k0" -> {2}
      [] zone = "00l" -> {3}
      [] zone = "hk0" -> {1, 2}
      [] zone = "h0l" -> {1, 3}
      [] zone = "0kl" -> {2, 3}
      [] zone = "hhl" -> {1, 3}
      [] zone = "hkk" -> {1, 2}
      [] zone = "hll" -> {1, 3}

ComponentValues(refs, i) == {r[i] : r \in refs}

\* the integers lo .. max_index - 1 without the excluded degenerate point:
\* on an axis the free index is never 0; in the other zones it is 0 only
\* next to a non-zero free index
ExpectedValues(zone, lo, m) ==
    {v \in lo .. (m - 1) :
        /\ zone \in AxialZones => v # 0
        /\ zone \notin AxialZones => (v # 0 \/ \E w \in lo .. (m - 1) : w # 0)}

\* C2 as stated: every free component ranges over -floor(max_index/2)
\* (inclusive) to max_index (exclusive), minus the excluded point.
C2_RangeFromMinusFloorHalf ==
    pc = "done" =>
        \A i \in FreeComponents(zone_type) :
            ComponentValues(test_refs, i)
                = ExpectedValues(zone_type, -(max_index \div 2), max_index)

\* C2 amended: every free component ranges over floor(-max_index/2), which
\* is -ceil(max_index/2), (inclusive) to max_index (exclusive), minus the
\* excluded point.
C2_RangeFromFloorOfMinusHalf ==
    pc = "done" =>
        \A i \in FreeComponents(zone_type) :
            ComponentValues(test_refs, i)
                = ExpectedValues(zone_type, -((max_index + 1) \div 2), max_index)

C2_Witness ==
    /\ pc = "done"
    /\ max_index = 3
    /\ zone_type = "hk0"
    /\ <<-2, 2, 0>> \in test_refs

\* C3: with the identity as the only operation, analyze_zone returns None
\* for every zone and every max_index.
C3_IdentityYieldsNone ==
    (pc = "done" /\ gemmi_ops = <<Identity>>) => returned = None

C3_Witness ==
    /\ pc = "done"
    /\ gemmi_ops = <<Identity>>
    /\ zone_type = "hkl"
    /\ max_index = DefaultMaxIndex
    /\ present_refs = test_refs
    /\ test_refs # {}
    /\ returned = None

\* position of the axis of an axial zone, and the zone's "=2n" condition
AxisOf(zone) == CASE zone = "h00" -> 1 [] zone = "0k0" -> 2 [] zone = "00l" -> 3

AxisParity(zone) ==
    CASE zone = "h00" -> "h=2n" [] zone = "0k0" -> "k=2n" [] zone = "00l" -> "l=2n"

AlongAxis(a, n) == [j \in 1..3 |-> IF j = a THEN n ELSE 0]

\* a pure half-cell translation along axis a, with a rotation part that
\* leaves the reflections of that axis invariant
HalfCellOp(op, a) ==
    /\ op.rot[a] = AlongAxis(a, DEN)
    /\ op.tran = AlongAxis(a, DEN \div 2)

HasHalfCellOp(zone) ==
    \E i \in 1..Len(gemmi_ops) : HalfCellOp(gemmi_ops[i], AxisOf(zone))

\* C4 as stated: an operation list with a half-cell operation for an axis
\* yields exactly ["<axis>=2n"] on that axial zone with the default
\* max_index, whatever the other operations.
C4_HalfCellAlwaysParity ==
    (/\ pc = "done"
     /\ max_index = DefaultMaxIndex
     /\ zone_type \in AxialZones
     /\ HasHalfCellOp(zone_type))
        => returned = <<AxisParity(zone_type)>>

\* C4 amended: the same, provided the reflection with index 2 on that axis
\* is present, that is, no other operation of the list makes it absent.
C4_HalfCellParityWhenTwoPresent ==
    (/\ pc = "done"
     /\ max_index = DefaultMaxIndex
     /\ zone_type \in AxialZones
     /\ HasHalfCellOp(zone_type)
     /\ AlongAxis(AxisOf(zone_type), 2) \in present_refs)
        => returned = <<AxisParity(zone_type)>>

C4_Witness ==
    /\ pc = "done"
    /\ max_index = DefaultMaxIndex
    /\ zone_type = "h00"
    /\ gemmi_ops = <<GlideC, TranA>>
    /\ <<2, 0, 0>> \in present_refs
    /\ returned = <<"h=2n">>

Elements(seq) == {seq[n] : n \in 1..Len(seq)}

\* the sum-mod-2 condition and the two single-index parities of a plane zone
PlaneSum(zone) ==
    CASE zone = "hk0" -> "h+k=2n" [] zone = "h0l" -> "h+l=2n"
      [] zone = "0kl" -> "k+l=2n"

PlaneSingles(zone) ==
    CASE zone = "hk0" -> {"h=2n", "k=2n"} [] zone = "h0l" -> {"h=2n", "l=2n"}
      [] zone = "0kl" -> {"k=2n", "l=2n"}

\* C5: in a plane zone the returned list never holds the sum-mod-2 condition
\* together with both single-index parities.
C5_NoRedundantSum ==
    (pc = "done" /\ zone_type \in PlaneZones /\ returned # None) =>
        ~ (/\ PlaneSum(zone_type) \in Elements(returned)
           /\ PlaneSingles(zone_type) \subseteq Elements(returned))

C5_Witness ==
    /\ pc = "done"
    /\ zone_type = "hk0"
    /\ gemmi_ops = <<TranA, TranB>>
    /\ \A r \in present_refs : r[1] % 2 = 0 /\ r[2] % 2 = 0 /\ (r[1] + r[2]) % 2 = 0
    /\ \E r \in present_refs : (r[1] + r[2]) % 4 # 0
    /\ returned = <<"h=2n", "k=2n">>

\* what a condition string says of a reflection (h, k, l)
Satisfies(r, c) ==
    LET h == r[1]  k == r[2]  l == r[3]
    IN  CASE c = "h+k, k+l, h+l=2n" ->
               (h + k) % 2 = 0 /\ (k + l) % 2 = 0 /\ (h + l) % 2 = 0
          [] c = "h+k+l=2n" -> (h + k + l) % 2 = 0
          [] c = "k+l=2n" -> (k + l) % 2 = 0
          [] c = "h+l=2n" -> (h + l) % 2 = 0
          [] c = "h+k=2n" -> (h + k) % 2 = 0
          [] c = "-h+k+l=3n" -> (-h + k + l) % 3 = 0
          [] c = "h-k+l=3n" -> (h - k + l) % 3 = 0
          [] c = "h=4n" -> h % 4 = 0
          [] c = "h=2n" -> h % 2 = 0
          [] c = "k=4n" -> k % 4 = 0
          [] c = "k=2n" -> k % 2 = 0
          [] c = "l=6n" -> l % 6 = 0
          [] c = "l=4n" -> l % 4 = 0
          [] c = "l=3n" -> l % 3 = 0
          [] c = "l=2n" -> l % 2 = 0
          [] c = "h+k=4n" -> (h + k) % 4 = 0
          [] c = "h+l=4n" -> (h + l) % 4 = 0
          [] c = "k+l=4n" -> (k + l) % 4 = 0
          [] c = "2h+l=4n" -> (2 * h + l) % 4 = 0
          [] c = "h+2k=4n" -> (h + 2 * k) % 4 = 0
          [] c = "h+2l=4n" -> (h + 2 * l) % 4 = 0
          [] OTHER -> FALSE

\* C9: every condition of a returned list holds for every sampled candidate
\* that is present.
C9_ConditionsHoldForPresent ==
    (pc = "done" /\ returned # None) =>
        \A c \in Elements(returned) : \A r \in present_refs : Satisfies(r, c)

C9_Witness ==
    /\ pc = "done"
    /\ zone_type = "0k0"
    /\ max_index = DefaultMaxIndex
    /\ returned = <<"k=2n">>
    /\ present_refs = {<<0, -4, 0>>, <<0, -2, 0>>, <<0, 2, 0>>, <<0, 4, 0>>,
                       <<0, 6, 0>>}

(***************************************************************************)
(* Two successive calls of analyze_zone on the same operations and zone,   *)
(* with two window sizes.                                                  *)
(***************************************************************************)
WindowPool == {Identity, TranA, Screw21B, GlideC}

InitWindows ==
    /\ pc = "call"
    /\ gemmi_ops \in OpLists(WindowPool)
    /\ zone_type \in Zones
    /\ max_index = Unset
    /\ ref = Unset /\ absent = Unset
    /\ test_refs = {} /\ present_refs = {}
    /\ returned = Unset /\ first_call = Unset
    /\ MainIdle

AnalyzeFirst ==
    /\ pc = "call"
    /\ \E m \in 0..MaxIndex : Call(m)
    /\ pc' = "again"
    /\ UNCHANGED <<gemmi_ops, ref, absent, zone_type, first_call, mainVars>>

AnalyzeAgain ==
    /\ pc = "again"
    /\ first_call' = [max_index |-> max_index, returned |-> returned]
    /\ \E m \in 0..MaxIndex : Call(m)
    /\ pc' = "done"
    /\ UNCHANGED <<gemmi_ops, ref, absent, zone_type, mainVars>>

NextWindows == AnalyzeFirst \/ AnalyzeAgain

SpecWindows == InitWindows /\ [][NextWindows]_vars

\* P is a period of the translations: P times every component is an integer
IsPeriod(P, ops) ==
    \A n \in 1..Len(ops) : \A j \in 1..3 : (P * ops[n].tran[j]) % DEN = 0

\* C6: for translations of period P and windows m1 < m2, both multiples of
\* P, a non-null result for m1 is also the result for m2.
C6_LargerWindowKeepsConditions ==
    (/\ pc = "done"
     /\ first_call.returned # None
     /\ first_call.max_index < max_index
     /\ \E P \in 1..DEN : /\ IsPeriod(P, gemmi_ops)
                          /\ first_call.max_index % P = 0
                          /\ max_index % P = 0)
        => returned = first_call.returned

(***************************************************************************)
(* main.  The gemmi library is the environment: a symbol is resolved by    *)
(* the table below, and each of its calls may raise.                       *)
(***************************************************************************)
Screw21Bpure == Op(RotTwoFoldB, <<0, DEN \div 2, 0>>)    \* -x, y+1/2, -z

\* gemmi.find_spacegroup_by_name: a falsy result (None, found = FALSE) for a
\* symbol gemmi cannot parse
find_spacegroup_by_name(hm_symbol) ==
    CASE hm_symbol = "P 1" ->
           [found |-> TRUE, number |-> 1, operations |-> <<Identity>>]
      [] hm_symbol = "P 1 21 1" ->
           [found |-> TRUE, number |-> 4,
            operations |-> <<Identity, Screw21Bpure>>]
      [] hm_symbol = "P 1 1 21" ->
           [found |-> TRUE, number |-> 4, operations |-> <<Identity, Screw21C>>]
      [] OTHER -> [found |-> FALSE]

\* gemmi.find_spacegroup_by_number: hm, crystal_system_str(),
\* point_group_hm() and is_centrosymmetric() of the standard setting
find_spacegroup_by_number(sg_number) ==
    CASE sg_number = 1 ->
           [hm |-> "P 1", crystal_system_str |-> "triclinic",
            point_group_hm |-> "1", is_centrosymmetric |-> FALSE]
      [] sg_number = 4 ->
           [hm |-> "P 1 21 1", crystal_system_str |-> "monoclinic",
            point_group_hm |-> "2", is_centrosymmetric |-> FALSE]

Numbers == {1, 4}

\* str(sg_number), and int(key) as used to sort the output
str(n) == ToString(n)

int(key) == CHOOSE n \in Numbers : str(n) = key

\* the zones in the order main analyses them
zones == <<"hkl", "0kl", "h0l", "hk0", "hhl", "hkk", "hll", "h00", "0k0", "00l">>

\* setting_conditions: the zones whose analysis returned a non-empty list
setting_conditions(ops) ==
    [zone \in {z \in Elements(zones) :
                  /\ analyze_zone(ops, z, DefaultMaxIndex) # None
                  /\ analyze_zone(ops, z, DefaultMaxIndex) # <<>>}
        |-> analyze_zone(ops, zone, DefaultMaxIndex)]

\* the analysis of the symbols gemmi resolves, computed once
ConditionsOfSymbol ==
    [sym \in {"P 1", "P 1 21 1", "P 1 1 21"} |->
        setting_conditions(find_spacegroup_by_name(sym).operations)]

\* the places of the try block where a gemmi call may raise
Raises == {"none", "by_name", "by_number", "operations"}

SkipLine(sg_number, hm_symbol, setting_name) ==
    [kind |-> "Skipped", number |-> sg_number, symbol |-> hm_symbol,
     detail |-> setting_name]

MismatchLine(sg_number, hm_symbol, parsed) ==
    [kind |-> "Number Mismatch", number |-> sg_number, symbol |-> hm_symbol,
     detail |-> parsed]

CriticalLine(sg_number, hm_symbol, e) ==
    [kind |-> "CRITICAL ERROR", number |-> sg_number, symbol |-> hm_symbol,
     detail |-> e]

\* variant: without the continue after the first warning, sg.number then
\* raises on None and the except clause writes a second line
skip_lines_no_continue(sg, sg_number, hm_symbol, setting_name) ==
    IF ~ sg.found
        THEN <<SkipLine(sg_number, hm_symbol, setting_name),
               CriticalLine(sg_number, hm_symbol, "AttributeError")>>
    ELSE IF sg.number # sg_number
        THEN <<MismatchLine(sg_number, hm_symbol, sg.number)>>
    ELSE <<>>

\* the lines written for a looked-up sg before the entry is touched; a
\* non-empty result is followed by continue
skip_lines(sg, sg_number, hm_symbol, setting_name) ==
    IF ~ sg.found
        THEN <<SkipLine(sg_number, hm_symbol, setting_name)>>
    ELSE IF sg.number # sg_number
        THEN <<MismatchLine(sg_number, hm_symbol, sg.number)>>
    ELSE <<>>

\* the top-level entry for a number, from gemmi's standard setting
new_entry(sg_number) ==
    LET sg_std == find_spacegroup_by_number(sg_number)
    IN  [number |-> sg_number,
         standard_symbol |-> sg_std.hm,
         crystal_system |-> sg_std.crystal_system_str,
         point_group |-> sg_std.point_group_hm,
         centrosymmetric |-> sg_std.is_centrosymmetric,
         settings |-> <<>>]

\* `if str(sg_number) not in database: database[str(sg_number)] = {...}`
\* variant: without the `not in database` test
with_entry_overwriting(db, sg_number) ==
    [key \in DOMAIN db \cup {str(sg_number)} |->
        IF key = str(sg_number) THEN new_entry(sg_number) ELSE db[key]]

with_entry(db, sg_number) ==
    IF str(sg_number) \in DOMAIN db THEN db
    ELSE [key \in DOMAIN db \cup {str(sg_number)} |->
            IF key = str(sg_number) THEN new_entry(sg_number) ELSE db[key]]

\* database[str(sg_number)]["settings"].append(setting_data)
with_setting(db, sg_number, setting_data) ==
    [db EXCEPT ![str(sg_number)].settings = Append(@, setting_data)]

\* the same bookkeeping for the history variable
OriginWithEntry(o, db, sg_number, n) ==
    IF str(sg_number) \in DOMAIN db THEN o
    ELSE [o EXCEPT !.entry = [key \in DOMAIN db \cup {str(sg_number)} |->
                                IF key = str(sg_number) THEN n ELSE o.entry[key]],
                   !.settings = [key \in DOMAIN db \cup {str(sg_number)} |->
                                IF key = str(sg_number) THEN <<>>
                                ELSE o.settings[key]]]

\* One pass of the try block for a well-formed setting, the n-th of the
\* list, with the environment raising at `raise` (if that call is made).
\* The result holds the new database and log, where an exception was
\* caught ("none" if nowhere), and the new history.
try_block(db, log, o, n, setting, raise) ==
    LET sg_number == setting.number
        hm_symbol == setting.symbol
        setting_name == setting.qualifier
        sg == find_spacegroup_by_name(hm_symbol)
        Caught(d, oo, where) ==
            [database |-> d,
             skipped_log |-> Append(log, CriticalLine(sg_number, hm_symbol, where)),
             raised |-> where,
             origin |-> [oo EXCEPT !.log = Append(@, n)]]
        skips == skip_lines(sg, sg_number, hm_symbol, setting_name)
        db1 == with_entry(db, sg_number)
        o1 == OriginWithEntry(o, db, sg_number, n)
        setting_data == [symbol |-> hm_symbol, description |-> setting_name,
                         reflection_conditions |-> ConditionsOfSymbol[hm_symbol]]
    IN  IF raise = "by_name" THEN Caught(db, o, "by_name")
        ELSE IF skips # <<>>
            THEN [database |-> db,
                  skipped_log |-> log \o skips,
                  raised |-> "none",
                  origin |-> [o EXCEPT !.log = @ \o [x \in 1..Len(skips) |-> n]]]
        ELSE IF raise = "by_number" /\ str(sg_number) \notin DOMAIN db
            THEN Caught(db, o, "by_number")
        ELSE IF raise = "operations" THEN Caught(db1, o1, "operations")
        ELSE [database |-> with_setting(db1, sg_number, setting_data),
              skipped_log |-> log,
              raised |-> "none",
              origin |-> [o1 EXCEPT !.settings[str(sg_number)] = Append(@, n)]]

\* the settings main may find in settings_list.json: well-formed ones, and
\* one without the "number" field
WellFormed(setting) == {"number", "symbol", "qualifier"} \subseteq DOMAIN setting

SettingPool ==
    { [number |-> 1, symbol |-> "P 1", qualifier |-> ""],
      [number |-> 4, symbol |-> "P 1 21 1", qualifier |-> "b"],
      [number |-> 4, symbol |-> "P 1 1 21", qualifier |-> "c"],
      [number |-> 4, symbol |-> "P 1 1 21 ?", qualifier |-> "c"],
      [number |-> 4, symbol |-> "P 1", qualifier |-> ""],
      [symbol |-> "P 1", qualifier |-> ""] }

HeaderLine == [kind |-> "header"]

InitMain ==
    /\ pc = "loop"
    /\ settings_list \in UNION {[1..n -> SettingPool] : n \in 0..MaxSettings}
    /\ position = 1
    /\ database = <<>>
    /\ skipped_log = <<HeaderLine, HeaderLine>>
    /\ output = Unset
    /\ raised = <<>>
    /\ origin = [log |-> <<0, 0>>, entry |-> <<>>, settings |-> <<>>]
    /\ gemmi_ops = Unset /\ ref = Unset /\ absent = Unset
    /\ zone_type = Unset /\ max_index = Unset
    /\ test_refs = {} /\ present_refs = {}
    /\ returned = Unset /\ first_call = Unset

\* one iteration of `for setting in settings_list`: the three field reads
\* are outside the try block, so a missing field ends main with a KeyError
HandleSetting ==
    /\ pc = "loop"
    /\ position <= Len(settings_list)
    /\ LET setting == settings_list[position]
       IN  IF ~ WellFormed(setting)
               THEN /\ pc' = "aborted"
                    /\ UNCHANGED mainVars
               ELSE \E raise \in Raises :
                      LET r == try_block(database, skipped_log, origin,
                                         position, setting, raise)
                      IN  /\ database' = r.database
                          /\ skipped_log' = r.skipped_log
                          /\ raised' = Append(raised, r.raised)
                          /\ origin' = r.origin
                          /\ position' = position + 1
                          /\ pc' = "loop"
                          /\ UNCHANGED <<settings_list, output>>
    /\ UNCHANGED callVars

\* sorted(database.items(), key=lambda item: int(item[0]))
RECURSIVE sorted_items(_, _)
sorted_items(db, keys) ==
    IF keys = {} THEN <<>>
    ELSE LET first == CHOOSE key \in keys :
                          \A other \in keys : int(key) <= int(other)
         IN  <<[key |-> first, value |-> db[first]]>>
                 \o sorted_items(db, keys \ {first})

\* after the loop: the database is dumped, sorted by group number
WriteOutput ==
    /\ pc = "loop"
    /\ position > Len(settings_list)
    /\ output' = sorted_items(database, DOMAIN database)
    /\ pc' = "written"
    /\ UNCHANGED <<settings_list, position, database, skipped_log, raised,
                   origin, callVars>>

NextMain == HandleSetting \/ WriteOutput

SpecMain == InitMain /\ [][NextMain]_vars

(***************************************************************************)
(* Properties of main.                                                     *)
(***************************************************************************)
\* C7: no setting stops the run: whatever fails while one setting is
\* handled, the loop goes on to the later settings and the output is
\* written.
C7_NoSettingStopsTheRun ==
    ~ (pc = "aborted" /\ position <= Len(settings_list))

\* the settings handled so far
Handled == 1 .. (position - 1)

\* the n-th setting names a symbol that gemmi does not resolve
Unresolved(n) ==
    /\ WellFormed(settings_list[n])
    /\ ~ find_spacegroup_by_name(settings_list[n].symbol).found

LinesFrom(n) == {x \in 1..Len(skipped_log) : origin.log[x] = n}

Succeeded(n) ==
    /\ WellFormed(settings_list[n])
    /\ find_spacegroup_by_name(settings_list[n].symbol).found
    /\ find_spacegroup_by_name(settings_list[n].symbol).number
           = settings_list[n].number
    /\ raised[n] = "none"

\* the n-th setting got as far as the creation of the entry of its number
ReachedEntry(n) ==
    /\ WellFormed(settings_list[n])
    /\ find_spacegroup_by_name(settings_list[n].symbol).found
    /\ find_spacegroup_by_name(settings_list[n].symbol).number
           = settings_list[n].number
    /\ raised[n] \in {"none", "operations"}

\* symbol and qualifier of the settings of a number that succeeded among
\* the first n, in processing order
RECURSIVE SucceededOf(_, _)
SucceededOf(number, n) ==
    IF n = 0 THEN <<>>
    ELSE IF Succeeded(n) /\ settings_list[n].number = number
        THEN Append(SucceededOf(number, n - 1),
                    <<settings_list[n].symbol, settings_list[n].qualifier>>)
    ELSE SucceededOf(number, n - 1)

RecordedOf(entry) ==
    [x \in 1..Len(entry.settings) |->
        <<entry.settings[x].symbol, entry.settings[x].description>>]

IsPrefix(a, b) == Len(a) <= Len(b) /\ \A x \in 1..Len(a) : a[x] = b[x]

\* C10: the entry of a number exists from the first setting that resolves
\* to it, is never created again nor its metadata overwritten, and its
\* settings are at every point the settings of that number that succeeded
\* so far, in processing order.
C10_EntryOnceSettingsInOrder ==
    /\ [](\A number \in Numbers :
            /\ str(number) \in DOMAIN database
                   <=> \E n \in Handled :
                          ReachedEntry(n) /\ settings_list[n].number = number
            /\ str(number) \in DOMAIN database =>
                   /\ database[str(number)].number = number
                   /\ RecordedOf(database[str(number)])
                          = SucceededOf(number, position - 1))
    /\ [][\A key \in DOMAIN database :
            /\ key \in DOMAIN database'
            /\ [database'[key] EXCEPT !.settings = <<>>]
                   = [database[key] EXCEPT !.settings = <<>>]
            /\ IsPrefix(database[key].settings, database'[key].settings)]_vars

C10_Witness ==
    /\ pc = "loop"
    /\ position = 4
    /\ raised = <<"none", "operations", "none">>
    /\ DOMAIN database = {"4"}
    /\ RecordedOf(database["4"]) = <<<<"P 1 21 1", "b">>, <<"P 1 1 21", "c">>>>

====
